---- MODULE Spec2Model ----
(***************************************************************************)
(* Google Scholar tools: the MCP server's four tool handlers               *)
(* (google-scholar-mcp/server.py), the free-text action flow of the chat   *)
(* front ends (google-scholar-api/chat.py, examples/ollama_example) and    *)
(* the native tool-calling loops (examples/anthropic_example,              *)
(* examples/openai_example).                                               *)
(*                                                                         *)
(* Text that the code takes apart (the publication summary) is a sequence  *)
(* of one-character strings; text that is only passed through (titles,     *)
(* queries, messages) is a TLA+ string.  A JSON value the code             *)
(* dereferences is tagged with its type, so that a null where a dict is    *)
(* expected raises as it does in Python.                                   *)
(***************************************************************************)
EXTENDS Integers, Sequences, FiniteSets, TLC

VARIABLES SERPAPI_KEY, pc, call, answer, sent, result, escaped,
          program, messages, turn, output

serverVars == <<SERPAPI_KEY, call, answer, sent, result, escaped>>
chatVars == <<program, messages, turn, output>>
vars == <<pc, serverVars, chatVars>>

----------------------------------------------------------------------------
(* Bounds of the model *)

MaxPieces == 5
MaxRecords == 2
MaxSegments == 2
MaxTurns == 2
MaxCalls == 2
MaxExtra == 1

----------------------------------------------------------------------------
(* Python values *)

None == [type |-> "none"]
Null == [type |-> "null"]
D(f) == [type |-> "dict", v |-> f]
S(s) == [type |-> "str", v |-> s]
EmptyDict == D(<<>>)
IsDict(x) == x.type = "dict"
IsStr(x) == x.type = "str"

\* dict.get(k, default) on a tagged dict
Get(d, k, default) == IF k \in DOMAIN d.v THEN d.v[k] ELSE default

\* dict.get(k, default) on the reply and on record fields that are passed through
GetRaw(f, k, default) == IF k \in DOMAIN f THEN f[k] ELSE default

Min(a, b) == IF a < b THEN a ELSE b
Max(a, b) == IF a > b THEN a ELSE b

TakeOneMore(list, n) == SubSeq(list, 1, Min(n + 1, Len(list)))

\* list[:n] for n >= 0
Take(list, n) == SubSeq(list, 1, Min(n, Len(list)))

----------------------------------------------------------------------------
(* Python str operations, on sequences of characters *)

Digits == {"0", "1", "2", "3", "4", "5", "6", "7", "8", "9"}
Letters == {"A", "B", "X", "Y", "U", "n", "k", "o", "w"}
IsWordChar(c) == c \in Digits \cup Letters \cup {"_"}
IsSpace(c) == c = " "

Sep == <<" ", "-", " ">>
Comma == <<",">>
Unknown == <<"U", "n", "k", "n", "o", "w", "n">>

StartsAt(s, sub, i) ==
    /\ i >= 1
    /\ i + Len(sub) - 1 <= Len(s)
    /\ SubSeq(s, i, i + Len(sub) - 1) = sub

\* str.find, 1-based, 0 when absent
RECURSIVE FindFrom(_, _, _)
FindFrom(s, sub, i) ==
    IF i + Len(sub) - 1 > Len(s) THEN 0
    ELSE IF StartsAt(s, sub, i) THEN i
    ELSE FindFrom(s, sub, i + 1)

\* sub in s
Contains(s, sub) == FindFrom(s, sub, 1) # 0

\* str.split(sep): non-overlapping occurrences, left to right
RECURSIVE split(_, _)
split(s, sep) ==
    LET i == FindFrom(s, sep, 1)
    IN  IF i = 0 THEN <<s>>
        ELSE <<SubSeq(s, 1, i - 1)>> \o split(SubSeq(s, i + Len(sep), Len(s)), sep)

\* str.rsplit(",", 1)[0]: the text before the last comma, the whole text without one
rsplit1_first(s) ==
    LET at == {i \in 1..Len(s) : s[i] = ","}
    IN  IF at = {} THEN s
        ELSE SubSeq(s, 1, (CHOOSE i \in at : \A j \in at : j <= i) - 1)

\* str.strip()
RECURSIVE lstrip(_)
lstrip(s) == IF s # <<>> /\ IsSpace(Head(s)) THEN lstrip(Tail(s)) ELSE s
RECURSIVE rstrip(_)
rstrip(s) ==
    IF s # <<>> /\ IsSpace(s[Len(s)]) THEN rstrip(SubSeq(s, 1, Len(s) - 1)) ELSE s
strip(s) == rstrip(lstrip(s))

\* a match of \b(19|20)\d{2}\b starts at i
YearAt(s, i) ==
    /\ i >= 1
    /\ i + 3 <= Len(s)
    /\ SubSeq(s, i, i + 1) \in {<<"1", "9">>, <<"2", "0">>}
    /\ s[i + 2] \in Digits
    /\ s[i + 3] \in Digits
    /\ (i = 1 \/ ~IsWordChar(s[i - 1]))
    /\ (i + 3 = Len(s) \/ ~IsWordChar(s[i + 4]))

NoMatch == <<>>

\* re.search(r'\b(19|20)\d{2}\b', s).group(): the leftmost match, NoMatch without one
year_search(s) ==
    LET at == {i \in 1..Len(s) : YearAt(s, i)}
    IN  IF at = {} THEN NoMatch
        ELSE LET i == CHOOSE i \in at : \A j \in at : i <= j
             IN  SubSeq(s, i, i + 3)

----------------------------------------------------------------------------
(* search_scholar: one record of organic_results *)

\* parts[-1]
LastPart(summary) == LET parts == split(summary, Sep) IN parts[Len(parts)]

\* venue = venue_year.rsplit(",", 1)[0].strip() if "," in venue_year else venue_year.strip()
venue_of(venue_year) ==
    IF Contains(venue_year, Comma)
    THEN strip(rsplit1_first(venue_year))
    ELSE strip(venue_year)

\* year = year_match.group() if year_match else "Unknown"
year_of(venue_year) ==
    LET year_match == year_search(venue_year)
    IN  IF year_match # NoMatch THEN year_match ELSE Unknown

ParseVenue(summary) ==
    IF summary # <<>> /\ Len(split(summary, Sep)) > 1
    THEN venue_of(LastPart(summary))
    ELSE Unknown

ParseYearUnguarded(summary) ==
    IF year_search(summary) # NoMatch THEN year_search(summary) ELSE Unknown

ParseYearPrefixGroup(summary) ==
    IF summary # <<>> /\ Len(split(summary, Sep)) > 1
    THEN LET year_match == year_search(LastPart(summary))
         IN  IF year_match # NoMatch THEN SubSeq(year_match, 1, 2) ELSE Unknown
    ELSE Unknown

ParseYear(summary) ==
    IF summary # <<>> /\ Len(split(summary, Sep)) > 1
    THEN year_of(LastPart(summary))
    ELSE Unknown

ParseAuthors(summary) ==
    IF Contains(summary, Sep) THEN split(summary, Sep)[1] ELSE summary

AttrErr == "'NoneType' object has no attribute 'get'"
TypeErr == "argument of type 'NoneType' is not iterable"
NoError == "<no exception>"

CitationsSkipLevel(rec) == Get(Get(rec, "inline_links", EmptyDict), "total", 0)

\* result.get("inline_links", {}).get("cited_by", {}).get("total", 0)
Citations(rec) ==
    Get(Get(Get(rec, "inline_links", EmptyDict), "cited_by", EmptyDict), "total", 0)

\* result.get("resources", [{}])[0].get("link", "") if result.get("resources") else ""
PdfUrl(rec) ==
    LET resources == Get(rec, "resources", <<>>)
    IN  IF resources # <<>> THEN Get(resources[1], "link", "") ELSE ""

\* the exception the loop body raises on this record, NoError when it raises none
PaperError(rec) ==
    IF ~IsDict(rec) THEN AttrErr
    ELSE LET pub_info == Get(rec, "publication_info", EmptyDict)
         IN  IF ~IsDict(pub_info) THEN AttrErr
             ELSE LET summary == Get(pub_info, "summary", S(<<>>))
                      links == Get(rec, "inline_links", EmptyDict)
                  IN  IF ~IsStr(summary) THEN TypeErr
                      ELSE IF ~IsDict(links) THEN AttrErr
                      ELSE IF ~IsDict(Get(links, "cited_by", EmptyDict)) THEN AttrErr
                      ELSE NoError

\* the dict appended to formatted_results
FormatPaper(rec) ==
    LET summary == Get(Get(rec, "publication_info", EmptyDict), "summary", S(<<>>)).v
    IN  [title     |-> Get(rec, "title", "Unknown"),
         authors   |-> ParseAuthors(summary),
         venue     |-> ParseVenue(summary),
         year      |-> ParseYear(summary),
         snippet   |-> Get(rec, "snippet", ""),
         citations |-> Citations(rec),
         url       |-> Get(rec, "link", ""),
         pdf_url   |-> PdfUrl(rec)]

----------------------------------------------------------------------------
(* The tool handlers of server.py *)

NumMin == 1
NumMax == 20

Ret(doc) == [kind |-> "return", doc |-> doc]
Exc(msg) == [kind |-> "raise", msg |-> msg]

MissingKeyMsg == "SERPAPI_KEY environment variable not set. Get a free API key at https://serpapi.com"

get_api_key_unchecked(key) == Ret(key)

get_api_key(key) == IF key = "" THEN Exc(MissingKeyMsg) ELSE Ret(key)

ClampUpperOnly(num_results) == Min(num_results, NumMax)

\* max(1, min(num_results, 20))
Clamp(num_results) == Max(NumMin, Min(num_results, NumMax))

\* `if year_from:` on an Optional[int]
\* a test for None instead of truthiness
IsNotNone(x) == x.type = "int"

Truthy(x) == x.type = "int" /\ x.v # 0
I(n) == [type |-> "int", v |-> n]

SearchParams(api_key, query, year_from, year_to, num) ==
    [engine |-> "google_scholar", q |-> query, api_key |-> api_key, num |-> num]
    @@ (IF Truthy(year_from) THEN "as_ylo" :> year_from.v ELSE <<>>)
    @@ (IF Truthy(year_to) THEN "as_yhi" :> year_to.v ELSE <<>>)

\* the first exception a loop raises, given what each pass raises; NoError when none does
FirstError(errors) ==
    LET bad == {i \in 1..Len(errors) : errors[i] # NoError}
    IN  IF bad = {} THEN NoError
        ELSE errors[CHOOSE i \in bad : \A j \in bad : i <= j]

Reraise(out, param, value) == out

HasErrorAlone(results) == "error" \in DOMAIN results /\ DOMAIN results = {"error"}

\* if "error" in results
HasError(results) == "error" \in DOMAIN results

\* except Exception as e: return json.dumps({"error": str(e), <param>: <value>})
Catch(out, param, value) ==
    IF out.kind = "raise" THEN Ret((param :> value) @@ ("error" :> out.msg)) ELSE out

\* the body of the try block: the requests it issued and how it ended
search_scholar_try(key, query, year_from, year_to, num_results, backend) ==
    LET api_key == get_api_key(key)
    IN  IF api_key.kind = "raise" THEN [sent |-> <<>>, out |-> api_key]
        ELSE
        LET num == Clamp(num_results)
            params == SearchParams(api_key.doc, query, year_from, year_to, num)
            results == backend.body
            shown == Take(GetRaw(results, "organic_results", <<>>), num)
        IN  [sent |-> <<params>>,
             out |->
                IF backend.kind = "raise" THEN Exc(backend.msg)
                ELSE IF HasError(results)
                THEN Ret([error |-> results.error, query |-> query])
                ELSE IF FirstError([i \in 1..Len(shown) |-> PaperError(shown[i])]) # NoError
                THEN Exc(FirstError([i \in 1..Len(shown) |-> PaperError(shown[i])]))
                ELSE Ret([query |-> query,
                          total_results |-> Len(shown),
                          results |-> [i \in 1..Len(shown) |-> FormatPaper(shown[i])]])]

search_scholar(key, query, year_from, year_to, num_results, backend) ==
    LET try == search_scholar_try(key, query, year_from, year_to, num_results, backend)
    IN  [sent |-> try.sent, out |-> Catch(try.out, "query", query)]

CitingError(rec) ==
    IF ~IsDict(rec) THEN AttrErr
    ELSE IF ~IsDict(Get(rec, "publication_info", EmptyDict)) THEN AttrErr
    ELSE NoError

FormatCiting(rec) ==
    [title   |-> Get(rec, "title", "Unknown"),
     authors |-> Get(Get(rec, "publication_info", EmptyDict), "summary", S(Unknown)),
     snippet |-> Get(rec, "snippet", ""),
     url     |-> Get(rec, "link", "")]

get_paper_citations_try(key, citation_id, num_results, backend) ==
    LET api_key == get_api_key(key)
    IN  IF api_key.kind = "raise" THEN [sent |-> <<>>, out |-> api_key]
        ELSE
        LET num == Clamp(num_results)
            params == [engine |-> "google_scholar", cites |-> citation_id,
                       api_key |-> api_key.doc, num |-> num]
            results == backend.body
            shown == Take(GetRaw(results, "organic_results", <<>>), num)
        IN  [sent |-> <<params>>,
             out |->
                IF backend.kind = "raise" THEN Exc(backend.msg)
                ELSE IF HasError(results)
                THEN Ret([error |-> results.error, citation_id |-> citation_id])
                ELSE IF FirstError([i \in 1..Len(shown) |-> CitingError(shown[i])]) # NoError
                THEN Exc(FirstError([i \in 1..Len(shown) |-> CitingError(shown[i])]))
                ELSE Ret([citation_id |-> citation_id,
                          citing_papers_count |-> Len(shown),
                          citing_papers |-> [i \in 1..Len(shown) |-> FormatCiting(shown[i])]])]

get_paper_citations(key, citation_id, num_results, backend) ==
    LET try == get_paper_citations_try(key, citation_id, num_results, backend)
    IN  [sent |-> try.sent, out |-> Catch(try.out, "citation_id", citation_id)]

PublicationsMax == 10
ProfilesMax == 5

\* the entry of the table that has the key is read, wherever it stands
TableStatAnyEntry(cited_by, key) ==
    LET table == Get(cited_by, "table", <<>>)
        having == {i \in 1..Len(table) : key \in DOMAIN table[i].v}
    IN  IF having # {}
        THEN Get(Get(table[CHOOSE i \in having : \A j \in having : i <= j], key, EmptyDict),
                 "all", 0)
        ELSE 0

\* cited_by.get("table", [{}])[0].get(key, {}).get("all", 0) if cited_by.get("table") else 0
TableStat(cited_by, key) ==
    LET table == Get(cited_by, "table", <<>>)
    IN  IF table # <<>> THEN Get(Get(table[1], key, EmptyDict), "all", 0) ELSE 0

TableStatError(cited_by, key) ==
    LET table == Get(cited_by, "table", <<>>)
    IN  IF table = <<>> THEN NoError
        ELSE IF ~IsDict(table[1]) THEN AttrErr
        ELSE IF ~IsDict(Get(table[1], key, EmptyDict)) THEN AttrErr
        ELSE NoError

ArticleError(article) ==
    IF ~IsDict(article) THEN AttrErr
    ELSE IF ~IsDict(Get(article, "cited_by", EmptyDict)) THEN AttrErr
    ELSE NoError

FormatArticle(article) ==
    [title     |-> Get(article, "title", "Unknown"),
     year      |-> Get(article, "year", "Unknown"),
     citations |-> Get(Get(article, "cited_by", EmptyDict), "value", 0)]

\* the first exception raised while building the profile dict, in the order of the code
ProfileError(results) ==
    LET author == GetRaw(results, "author", EmptyDict)
        cited_by == GetRaw(results, "cited_by", EmptyDict)
        shown == Take(GetRaw(results, "articles", <<>>), PublicationsMax)
        articleError == FirstError([i \in 1..Len(shown) |-> ArticleError(shown[i])])
    IN  IF articleError # NoError THEN articleError
        ELSE IF ~IsDict(author) THEN AttrErr
        ELSE IF ~IsDict(cited_by) THEN AttrErr
        ELSE IF TableStatError(cited_by, "citations") # NoError THEN AttrErr
        ELSE IF TableStatError(cited_by, "h_index") # NoError THEN AttrErr
        ELSE IF TableStatError(cited_by, "i10_index") # NoError THEN AttrErr
        ELSE NoError

FormatProfile(results) ==
    LET author == GetRaw(results, "author", EmptyDict)
        cited_by == GetRaw(results, "cited_by", EmptyDict)
        shown == Take(GetRaw(results, "articles", <<>>), PublicationsMax)
    IN  [name          |-> Get(author, "name", "Unknown"),
         affiliation   |-> Get(author, "affiliations", "Unknown"),
         email_domain  |-> Get(author, "email", "Unknown"),
         interests     |-> Get(author, "interests", <<>>),
         citations_all |-> TableStat(cited_by, "citations"),
         h_index       |-> TableStat(cited_by, "h_index"),
         i10_index     |-> TableStat(cited_by, "i10_index"),
         publications  |-> [i \in 1..Len(shown) |-> FormatArticle(shown[i])]]

get_author_profile_try(key, author_id, backend) ==
    LET api_key == get_api_key(key)
    IN  IF api_key.kind = "raise" THEN [sent |-> <<>>, out |-> api_key]
        ELSE
        LET params == [engine |-> "google_scholar_author", author_id |-> author_id,
                       api_key |-> api_key.doc]
            results == backend.body
        IN  [sent |-> <<params>>,
             out |->
                IF backend.kind = "raise" THEN Exc(backend.msg)
                ELSE IF HasError(results)
                THEN Ret([error |-> results.error, author_id |-> author_id])
                ELSE IF ProfileError(results) # NoError THEN Exc(ProfileError(results))
                ELSE Ret(FormatProfile(results))]

get_author_profile(key, author_id, backend) ==
    LET try == get_author_profile_try(key, author_id, backend)
    IN  [sent |-> try.sent, out |-> Catch(try.out, "author_id", author_id)]

InterestError(i) == IF ~IsDict(i) THEN AttrErr ELSE NoError

MatchError(profile) ==
    IF ~IsDict(profile) THEN AttrErr
    ELSE LET interests == Get(profile, "interests", <<>>)
         IN  FirstError([i \in 1..Len(interests) |-> InterestError(interests[i])])

FormatMatch(profile) ==
    LET interests == Get(profile, "interests", <<>>)
    IN  [name         |-> Get(profile, "name", "Unknown"),
         author_id    |-> Get(profile, "author_id", ""),
         affiliation  |-> Get(profile, "affiliations", "Unknown"),
         email_domain |-> Get(profile, "email", ""),
         citations    |-> Get(profile, "cited_by", 0),
         interests    |-> [i \in 1..Len(interests) |-> Get(interests[i], "title", "")]]

search_author_try(key, author_name, backend) ==
    LET api_key == get_api_key(key)
    IN  IF api_key.kind = "raise" THEN [sent |-> <<>>, out |-> api_key]
        ELSE
        LET params == [engine |-> "google_scholar_profiles", mauthors |-> author_name,
                       api_key |-> api_key.doc]
            results == backend.body
            shown == Take(GetRaw(results, "profiles", <<>>), ProfilesMax)
        IN  [sent |-> <<params>>,
             out |->
                IF backend.kind = "raise" THEN Exc(backend.msg)
                ELSE IF HasError(results)
                THEN Ret([error |-> results.error, author_name |-> author_name])
                ELSE IF FirstError([i \in 1..Len(shown) |-> MatchError(shown[i])]) # NoError
                THEN Exc(FirstError([i \in 1..Len(shown) |-> MatchError(shown[i])]))
                ELSE Ret([author_name |-> author_name,
                          matching_authors |-> [i \in 1..Len(shown) |-> FormatMatch(shown[i])]])]

search_author(key, author_name, backend) ==
    LET try == search_author_try(key, author_name, backend)
    IN  [sent |-> try.sent, out |-> Catch(try.out, "author_name", author_name)]

----------------------------------------------------------------------------
(* Inputs: tool arguments and what the backend answers *)

RECURSIVE Flatten(_)
Flatten(pieces) == IF pieces = <<>> THEN <<>> ELSE Head(pieces) \o Flatten(Tail(pieces))

SeqsUpTo(set, n) == UNION {[1..k -> set] : k \in 0..n}

Pieces == {<<"A">>, Sep, <<",", " ">>, <<" ">>, <<"2", "0", "2", "0">>, <<"1", "9", "8", "7">>}
Summaries == {Flatten(ps) : ps \in SeqsUpTo(Pieces, MaxPieces)}

Queries == {"rag", "llm arxiv"}
Years == {None, I(0), I(2020)}
Nums == {-5, 0, 1, 2, 7, 20, 21, 999}
CitationIds == {"1234567890"}
AuthorIds == {"JicYPdAAAAAJ"}
AuthorNames == {"Geoffrey Hinton"}

RecordWith(summary) == D([title |-> "T", publication_info |-> D([summary |-> S(summary)])])

\* "X, Y - A, 2022"
FullRecord ==
    D([title |-> "T",
       publication_info |->
           D([summary |-> S(<<"X", ",", " ", "Y", " ", "-", " ", "A", ",", " ", "2", "0", "2", "2">>)]),
       snippet |-> "abstract",
       inline_links |-> D([cited_by |-> D([total |-> 42])]),
       link |-> "http://x",
       resources |-> <<D([link |-> "http://x.pdf"])>>])

RecordShapes ==
    {FullRecord,
     EmptyDict,
     D([title |-> "no links", publication_info |-> D([summary |-> S(<<"A", ",", " ", "B">>)])]),
     D([title |-> "no cited_by", inline_links |-> EmptyDict]),
     D([title |-> "no total", inline_links |-> D([cited_by |-> EmptyDict]), resources |-> <<>>]),
     D([title |-> "null info", publication_info |-> Null]),
     D([title |-> "null summary", publication_info |-> D([summary |-> Null])]),
     D([title |-> "null links", inline_links |-> Null])}

Reply(body) == [kind |-> "reply", body |-> body]
Raises == {[kind |-> "raise", msg |-> "timed out"]}
NoBackend == [kind |-> "none"]
BackendErrors == {"quota exceeded"}

SearchBackends ==
    Raises
    \cup {Reply([error |-> e]) : e \in BackendErrors}
    \cup {Reply([error |-> e, organic_results |-> rs]) :
            e \in BackendErrors, rs \in {<<FullRecord>>, <<D([publication_info |-> Null])>>}}
    \cup {Reply(<<>>)}
    \cup {Reply([organic_results |-> rs]) : rs \in SeqsUpTo(RecordShapes, MaxRecords)}

ArticleShapes ==
    {D([title |-> "P", year |-> "2020", cited_by |-> D([value |-> 3])]),
     EmptyDict,
     D([title |-> "null cited_by", cited_by |-> Null])}

TableShapes ==
    {<<>>,
     <<D([citations |-> D([all |-> 100]), h_index |-> D([all |-> 9]), i10_index |-> D([all |-> 4])])>>,
     <<D([citations |-> D([all |-> 100])]), D([h_index |-> D([all |-> 9])]),
       D([i10_index |-> D([all |-> 4])])>>,
     <<D([citations |-> D([all |-> 100]), h_index |-> D([all |-> 9])]),
       D([h_index |-> D([all |-> 50]), i10_index |-> D([all |-> 4])])>>,
     <<D([citations |-> Null])>>}

\* replies whose list is about as long as what the handler shows, and longer: the
\* i-th item carries the number i; one reply ends in an item that is no object
LongArticles(n) ==
    [i \in 1..n |-> D([title |-> "P", year |-> "2020", cited_by |-> D([value |-> i])])]
LongProfiles(n) == [i \in 1..n |-> D([name |-> "G. Hinton", cited_by |-> i])]

ProfileBackends ==
    Raises
    \cup {Reply([articles |-> LongArticles(n)]) : n \in (PublicationsMax - 1)..(PublicationsMax + MaxExtra)}
    \cup {Reply([articles |-> Append(LongArticles(PublicationsMax), Null)])}
    \cup {Reply([error |-> e]) : e \in BackendErrors}
    \cup {Reply(<<>>), Reply([author |-> Null]), Reply([cited_by |-> Null])}
    \cup {Reply([author |-> D([name |-> "G. Hinton"]), cited_by |-> D([table |-> tb]),
                 articles |-> as]) :
            tb \in TableShapes, as \in SeqsUpTo(ArticleShapes, MaxRecords)}

MatchShapes ==
    {D([name |-> "G. Hinton", author_id |-> "JicYPdAAAAAJ", cited_by |-> 5,
        interests |-> <<D([title |-> "ml"])>>]),
     EmptyDict,
     Null}

AuthorBackends ==
    Raises
    \cup {Reply([profiles |-> LongProfiles(n)]) : n \in (ProfilesMax - 1)..(ProfilesMax + MaxExtra)}
    \cup {Reply([profiles |-> Append(LongProfiles(ProfilesMax), Null)])}
    \cup {Reply([error |-> e]) : e \in BackendErrors}
    \cup {Reply(<<>>)}
    \cup {Reply([profiles |-> ps]) : ps \in SeqsUpTo(MatchShapes, MaxRecords)}

----------------------------------------------------------------------------
(* The server: a tool call arrives, its handler runs, the reply is delivered *)

NoCall == [tool |-> "none"]
NoTurn == [responses |-> <<>>, searches |-> <<>>, prompts |-> <<>>, results |-> <<>>]
NoOutput == <<>>
NoResult == <<>>

Calls ==
    {[tool |-> "search_scholar", query |-> q, year_from |-> yf, year_to |-> yt,
      num_results |-> n] : q \in Queries, yf \in Years, yt \in Years, n \in Nums}
    \cup {[tool |-> "get_paper_citations", citation_id |-> c, num_results |-> n] :
            c \in CitationIds, n \in Nums}
    \cup {[tool |-> "get_author_profile", author_id |-> a] : a \in AuthorIds}
    \cup {[tool |-> "search_author", author_name |-> a] : a \in AuthorNames}

Init ==
    /\ SERPAPI_KEY \in {"", "key"}
    /\ pc = "idle"
    /\ call = NoCall
    /\ answer = NoBackend
    /\ sent = <<>>
    /\ result = NoResult
    /\ escaped = NoError
    /\ program = "server"
    /\ messages = <<>>
    /\ turn = NoTurn
    /\ output = NoOutput

Invoke ==
    /\ pc = "idle"
    /\ call' \in Calls
    /\ pc' = "called"
    /\ UNCHANGED <<SERPAPI_KEY, answer, sent, result, escaped, chatVars>>

\* the handler ran: r is what it did, b what the backend answered if it was asked
Finish(r, b) ==
    /\ sent' = r.sent
    /\ answer' = IF r.sent = <<>> THEN NoBackend ELSE b
    /\ result' = IF r.out.kind = "return" THEN r.out.doc ELSE NoResult
    /\ escaped' = IF r.out.kind = "return" THEN NoError ELSE r.out.msg
    /\ pc' = "returned"
    /\ UNCHANGED <<SERPAPI_KEY, call, chatVars>>

ToolSearchScholar ==
    /\ pc = "called"
    /\ call.tool = "search_scholar"
    /\ \E b \in SearchBackends :
         Finish(search_scholar(SERPAPI_KEY, call.query, call.year_from, call.year_to,
                               call.num_results, b), b)

ToolGetPaperCitations ==
    /\ pc = "called"
    /\ call.tool = "get_paper_citations"
    /\ \E b \in SearchBackends :
         Finish(get_paper_citations(SERPAPI_KEY, call.citation_id, call.num_results, b), b)

ToolGetAuthorProfile ==
    /\ pc = "called"
    /\ call.tool = "get_author_profile"
    /\ \E b \in ProfileBackends :
         Finish(get_author_profile(SERPAPI_KEY, call.author_id, b), b)

ToolSearchAuthor ==
    /\ pc = "called"
    /\ call.tool = "search_author"
    /\ \E b \in AuthorBackends :
         Finish(search_author(SERPAPI_KEY, call.author_name, b), b)

Respond ==
    /\ pc = "returned"
    /\ pc' = "idle"
    /\ call' = NoCall
    /\ answer' = NoBackend
    /\ sent' = <<>>
    /\ result' = NoResult
    /\ escaped' = NoError
    /\ UNCHANGED <<SERPAPI_KEY, chatVars>>

Next ==
    \/ Invoke
    \/ ToolSearchScholar
    \/ ToolGetPaperCitations
    \/ ToolGetAuthorProfile
    \/ ToolSearchAuthor
    \/ Respond

Spec == Init /\ [][Next]_vars

----------------------------------------------------------------------------
(* search_scholar on one record, over every summary text of the bound *)

DefaultSearch ==
    [tool |-> "search_scholar", query |-> "rag", year_from |-> None, year_to |-> None,
     num_results |-> 10]

InitSummary ==
    /\ SERPAPI_KEY = "key"
    /\ pc = "called"
    /\ call = DefaultSearch
    /\ answer = NoBackend
    /\ sent = <<>>
    /\ result = NoResult
    /\ escaped = NoError
    /\ program = "server"
    /\ messages = <<>>
    /\ turn = NoTurn
    /\ output = NoOutput

SearchSummary ==
    /\ pc = "called"
    /\ \E s \in Summaries :
         LET b == Reply([organic_results |-> <<RecordWith(s)>>])
         IN  Finish(search_scholar(SERPAPI_KEY, call.query, call.year_from, call.year_to,
                                   call.num_results, b), b)

NextSummary == SearchSummary

SpecSummary == InitSummary /\ [][NextSummary]_vars

----------------------------------------------------------------------------
(* The free-text action protocol: chat.py and examples/ollama_example.py *)

(* A model response is a sequence of segments: prose, a fenced code block   *)
(* holding a brace-delimited text, or a brace-delimited text bare in the    *)
(* prose.  A brace-delimited text is described by what the two regular      *)
(* expressions and json.loads see of it: whether it parses, whether it has  *)
(* no braces inside, whether it holds the text "action", and its value.     *)

Prose == [kind |-> "prose"]
Fence(b) == [kind |-> "fence", body |-> b]
Bare(b) == [kind |-> "bare", body |-> b]

\* {"action": "search", "query": "rag", "num_results": 3, "year_from": 2023}
SearchBody ==
    [valid |-> TRUE, flat |-> TRUE, mentions_action |-> TRUE,
     value |-> [action |-> "search", query |-> "rag", num_results |-> 3, year_from |-> 2023]]
\* {"action": "search"}
MinimalSearchBody ==
    [valid |-> TRUE, flat |-> TRUE, mentions_action |-> TRUE, value |-> [action |-> "search"]]
\* {"action": "cite", "query": "rag"}
CiteBody ==
    [valid |-> TRUE, flat |-> TRUE, mentions_action |-> TRUE,
     value |-> [action |-> "cite", query |-> "rag"]]
\* {"query": "rag"}
PlainBody ==
    [valid |-> TRUE, flat |-> TRUE, mentions_action |-> FALSE, value |-> [query |-> "rag"]]
\* {"action": "search", "query": }
BrokenActionBody ==
    [valid |-> FALSE, flat |-> TRUE, mentions_action |-> TRUE, value |-> <<>>]
\* {query: rag}
BrokenBody ==
    [valid |-> FALSE, flat |-> TRUE, mentions_action |-> FALSE, value |-> <<>>]
\* {"action": "search", "query": "rag", "filters": {"open": 1}}
NestedSearchBody ==
    [valid |-> TRUE, flat |-> FALSE, mentions_action |-> TRUE,
     value |-> [action |-> "search", query |-> "rag"]]

Bodies ==
    {SearchBody, MinimalSearchBody, CiteBody, PlainBody, BrokenActionBody, BrokenBody,
     NestedSearchBody}
Segments == {Prose} \cup {Fence(b) : b \in Bodies} \cup {Bare(b) : b \in Bodies}
Texts == SeqsUpTo(Segments, MaxSegments)

\* re.search: the leftmost of the places where the pattern matches, 0 when none
Leftmost(at) == IF at = {} THEN 0 ELSE CHOOSE i \in at : \A j \in at : i <= j

\* re.search(r"```(?:json)?\s*(\{[^`]+\})\s*```", text, re.DOTALL)
IsFence(seg) == seg.kind = "fence"
\* re.search(r'\{[^{}]*"action"[^{}]*\}', text)
IsFlatAction(seg) == seg.kind # "prose" /\ seg.body.flat /\ seg.body.mentions_action

extract_json_block_fenced_only(text) ==
    LET fenced == Leftmost({i \in 1..Len(text) : IsFence(text[i])})
    IN  IF fenced # 0 /\ text[fenced].body.valid THEN D(text[fenced].body.value) ELSE None

\* the bare object is looked for first
extract_json_block_bare_first(text) ==
    LET fenced == Leftmost({i \in 1..Len(text) : IsFence(text[i])})
        raw == Leftmost({i \in 1..Len(text) : IsFlatAction(text[i])})
    IN  IF raw # 0 /\ text[raw].body.valid THEN D(text[raw].body.value)
        ELSE IF fenced # 0 /\ text[fenced].body.valid THEN D(text[fenced].body.value)
        ELSE None

extract_json_block(text) ==
    LET fenced == Leftmost({i \in 1..Len(text) : IsFence(text[i])})
        raw == Leftmost({i \in 1..Len(text) : IsFlatAction(text[i])})
    IN  IF fenced # 0 /\ text[fenced].body.valid THEN D(text[fenced].body.value)
        ELSE IF raw # 0 /\ text[raw].body.valid THEN D(text[raw].body.value)
        ELSE None

\* if action and action.get("action") == "search"
WantsSearch(action) ==
    /\ IsDict(action)
    /\ action.v # <<>>
    /\ "action" \in DOMAIN action.v
    /\ action.v.action = "search"

\* the keyword arguments of the search_scholar call
SearchArgs(action) ==
    [query       |-> Get(action, "query", ""),
     year_from   |-> Get(action, "year_from", None),
     year_to     |-> Get(action, "year_to", None),
     num_results |-> Get(action, "num_results", 5)]

\* what scholar.search_scholar returns: a ScholarResult, with error set or with papers
LibOutcomes ==
    {[error |-> "quota exceeded", total |-> 0], [error |-> "", total |-> 0],
     [error |-> "", total |-> 2]}
LibSearch(args, outcome) ==
    [query |-> args.query, total_results |-> outcome.total, error |-> outcome.error]

format_results(results) ==
    IF results.error # ""
    THEN [text |-> "Search error: ", error |-> results.error]
    ELSE [text |-> "Found papers: ", total |-> results.total_results]

Msg(role, content) == [role |-> role, content |-> content]
SystemMsg == Msg("system", [prompt |-> "SYSTEM_PROMPT"])
UserMsg(text) == Msg("user", [input |-> text])
AssistantMsg(text) == Msg("assistant", [text |-> text])
ResultsMsg(formatted) == Msg("user", [results |-> formatted])

SummaryTexts == {<<Prose>>, <<Prose, Fence(SearchBody)>>}
GreetingTexts == {<<Prose>>}
ChatTexts ==
    {<<Prose>>, <<Prose, Fence(SearchBody)>>, <<Bare(SearchBody)>>, <<Fence(BrokenBody)>>,
     <<Fence(PlainBody), Bare(SearchBody)>>}
UserMessages == {"find rag papers"}

InitChat ==
    /\ program \in {"ollama_example", "chat"}
    /\ pc = "start"
    /\ messages = <<>>
    /\ turn = NoTurn
    /\ output = NoOutput
    /\ SERPAPI_KEY = "key"
    /\ call = NoCall
    /\ answer = NoBackend
    /\ sent = <<>>
    /\ result = NoResult
    /\ escaped = NoError

\* ollama_example.chat_with_scholar(user_message)
ChatWithScholar ==
    /\ program = "ollama_example"
    /\ pc = "start"
    /\ \E user_message \in UserMessages, response_text \in Texts,
          outcome \in LibOutcomes, final_response \in SummaryTexts :
         LET initial == <<SystemMsg, UserMsg(user_message)>>
             action == extract_json_block(response_text)
             results == LibSearch(SearchArgs(action), outcome)
             answered == initial \o <<AssistantMsg(response_text),
                                      ResultsMsg(format_results(results))>>
         IN  IF WantsSearch(action)
             THEN /\ messages' = answered
                  /\ turn' = [responses |-> <<response_text, final_response>>,
                              searches |-> <<SearchArgs(action)>>,
                              prompts |-> <<initial, answered>>,
                              results |-> <<results>>]
                  /\ output' = final_response
             ELSE /\ messages' = initial
                  /\ turn' = [responses |-> <<response_text>>, searches |-> <<>>,
                              prompts |-> <<initial>>, results |-> <<>>]
                  /\ output' = response_text
    /\ pc' = "done"
    /\ UNCHANGED <<program, serverVars>>

\* chat.main(): the greeting before the loop
Greeting ==
    /\ program = "chat"
    /\ pc = "start"
    /\ \E assistant_message \in GreetingTexts :
         /\ messages' = <<SystemMsg, AssistantMsg(assistant_message)>>
         /\ output' = assistant_message
    /\ pc' = "input"
    /\ UNCHANGED <<program, turn, serverVars>>

LowerChar(c) ==
    CASE c = "Q" -> "q" [] c = "U" -> "u" [] c = "I" -> "i" [] c = "T" -> "t" [] OTHER -> c
lower(s) == [i \in 1..Len(s) |-> LowerChar(s[i])]

QuitWords == {<<"q", "u", "i", "t">>, <<"e", "x", "i", "t">>, <<"b", "y", "e">>, <<"q">>}
Lines ==
    {<<>>, <<" ">>, <<"q">>, <<" ", "Q">>, <<"Q", "u", "i", "t">>, <<"e", "x", "i", "t">>,
     <<"b", "y", "e">>, <<"r", "a", "g">>, <<"r", "a", "g", " ">>}

UserTurns == Cardinality({i \in 1..Len(messages) : "input" \in DOMAIN messages[i].content})

\* input() raises KeyboardInterrupt or EOFError
ReadInterrupt ==
    /\ program = "chat"
    /\ pc = "input"
    /\ pc' = "done"
    /\ UNCHANGED <<serverVars, chatVars>>

\* the empty line is taken for a message
ReadEmptyAppends ==
    /\ program = "chat"
    /\ pc = "input"
    /\ UserTurns < MaxTurns
    /\ \E line \in Lines : strip(line) = <<>> /\ messages' = Append(messages, UserMsg(strip(line)))
    /\ UNCHANGED <<pc, program, turn, output, serverVars>>

\* if not user_input: continue
ReadEmpty ==
    /\ program = "chat"
    /\ pc = "input"
    /\ \E line \in Lines : strip(line) = <<>>
    /\ UNCHANGED vars

ReadQuit ==
    /\ program = "chat"
    /\ pc = "input"
    /\ \E line \in Lines : strip(line) # <<>> /\ lower(strip(line)) \in QuitWords
    /\ pc' = "done"
    /\ UNCHANGED <<serverVars, chatVars>>

\* a search that failed takes the loop out
after_turn_break_on_error(results) == IF results.error # "" THEN "done" ELSE "input"

\* the end of the loop body: print() and back to the top of while True, whatever
\* the search returned
after_turn(results) == "input"

\* one pass of the loop body on a user message
ReadMessage ==
    /\ program = "chat"
    /\ pc = "input"
    /\ UserTurns < MaxTurns
    /\ \E line \in Lines, assistant_message \in ChatTexts,
          outcome \in LibOutcomes, summary \in SummaryTexts :
         LET user_input == strip(line)
             asked == Append(messages, UserMsg(user_input))
             action == extract_json_block(assistant_message)
             results == LibSearch(SearchArgs(action), outcome)
             answered == asked \o <<AssistantMsg(assistant_message),
                                    ResultsMsg(format_results(results))>>
         IN  /\ user_input # <<>>
             /\ lower(user_input) \notin QuitWords
             /\ IF WantsSearch(action)
                THEN /\ messages' = answered \o <<AssistantMsg(summary)>>
                     /\ turn' = [responses |-> <<assistant_message, summary>>,
                                 searches |-> <<SearchArgs(action)>>,
                                 prompts |-> <<asked, answered>>,
                                 results |-> <<results>>]
                     /\ output' = summary
                     /\ pc' = after_turn(results)
                ELSE /\ messages' = asked \o <<AssistantMsg(assistant_message)>>
                     /\ turn' = [responses |-> <<assistant_message>>, searches |-> <<>>,
                                 prompts |-> <<asked>>, results |-> <<>>]
                     /\ output' = assistant_message
                     /\ pc' = "input"
    /\ UNCHANGED <<program, serverVars>>

NextChat ==
    \/ ChatWithScholar
    \/ Greeting
    \/ ReadInterrupt
    \/ ReadEmpty
    \/ ReadQuit
    \/ ReadMessage

SpecChat == InitChat /\ [][NextChat]_vars

----------------------------------------------------------------------------
(* The native tool-calling loops: examples/anthropic_example.py and        *)
(* examples/openai_example.py                                               *)
(*                                                                          *)
(* The n-th response of the model carries the text n, and its k-th tool     *)
(* request the id (n, k).  turn holds the locals of chat_with_scholar: the  *)
(* response in hand, the position of the for loop, the tool results         *)
(* collected, and two histories: the message lists the model was invoked    *)
(* with and the requests that were executed.                                *)

ToolNames == {"search_scholar", "no_such_tool"}

CallId(n, k) == [response |-> n, index |-> k]
TextOf(n) == [text |-> n]

\* Anthropic: a response is a stop reason and a list of content blocks, each a text
\* or a tool_use
ToolUse(id, name) == [type |-> "tool_use", id |-> id, name |-> name]
ToolUses(n, names) == [k \in 1..Len(names) |-> ToolUse(CallId(n, k), names[k])]

AnthropicAsking(n) ==
    {[stop_reason |-> "tool_use",
      content |-> <<[type |-> "text", text |-> TextOf(n)]>> \o ToolUses(n, names)] :
        names \in SeqsUpTo(ToolNames, MaxCalls) \ {<<>>}}
    \cup {[stop_reason |-> "tool_use", content |-> ToolUses(n, <<"search_scholar">>)]}
\* the end of the turn, and a response cut off at max_tokens inside a tool_use block
AnthropicFinal(n) ==
    {[stop_reason |-> "end_turn", content |-> <<[type |-> "text", text |-> TextOf(n)]>>],
     [stop_reason |-> "max_tokens",
      content |-> <<[type |-> "text", text |-> TextOf(n)],
                    ToolUse(CallId(n, 1), "search_scholar")>>]}

\* OpenAI: a response message has a content and tool_calls, a list or None
ToolCalls(n, names) ==
    [k \in 1..Len(names) |->
        [id |-> CallId(n, k), type |-> "function", function |-> [name |-> names[k]]]]

OpenAIAsking(n) ==
    {[role |-> "assistant", content |-> None, tool_calls |-> [list |-> ToolCalls(n, names)]] :
        names \in SeqsUpTo(ToolNames, MaxCalls) \ {<<>>}}
    \cup {[role |-> "assistant", content |-> TextOf(n),
           tool_calls |-> [list |-> ToolCalls(n, <<"search_scholar">>)]]}
OpenAIFinal(n) ==
    {[role |-> "assistant", content |-> TextOf(n), tool_calls |-> None],
     [role |-> "assistant", content |-> TextOf(n), tool_calls |-> [list |-> <<>>]]}

\* what the scholar package's dispatcher gives back for a request: the text of the
\* operation's result, or of the failure for an operation it does not know
ToolOutput(name) ==
    IF name = "search_scholar" THEN [result |-> name] ELSE [error |-> "Unknown tool"]

process_anthropic_tool_use(tool_use) ==
    [type |-> "tool_result", tool_use_id |-> tool_use.id, content |-> ToolOutput(tool_use.name)]

process_openai_tool_call(tool_call) ==
    [role |-> "tool", tool_call_id |-> tool_call.id,
     content |-> ToolOutput(tool_call.function.name)]

\* only the first request of a response is taken up
first_tool_use_block(response) ==
    LET all == SelectSeq(response.content, LAMBDA block : block.type = "tool_use")
    IN  SubSeq(all, 1, 1)

\* [block for block in response.content if block.type == "tool_use"]
tool_use_blocks(response) ==
    SelectSeq(response.content, LAMBDA block : block.type = "tool_use")

\* the requests the for loop goes through: tool_use_blocks, or
\* response.choices[0].message.tool_calls
requests(dialect, response) ==
    IF dialect = "anthropic_example" THEN tool_use_blocks(response)
    ELSE response.tool_calls.list

\* a loop that gives up on a response with more than one request
loop_test_single(dialect, response) ==
    IF dialect = "anthropic_example"
    THEN response.stop_reason = "tool_use" /\ Len(response.content) <= 2
    ELSE response.tool_calls # None /\ Len(response.tool_calls.list) = 1

\* while response.stop_reason == "tool_use":
\* while response.choices[0].message.tool_calls:
loop_test(dialect, response) ==
    IF dialect = "anthropic_example"
    THEN response.stop_reason = "tool_use"
    ELSE response.tool_calls # None /\ response.tool_calls.list # <<>>

\* "\n".join(text_blocks); response.choices[0].message.content
final_text(dialect, response) ==
    IF dialect = "anthropic_example"
    THEN LET text_blocks == SelectSeq(response.content, LAMBDA block : "text" \in DOMAIN block)
         IN  [i \in 1..Len(text_blocks) |-> text_blocks[i].text]
    ELSE response.content

AssistantTurn(dialect, response) ==
    IF dialect = "anthropic_example"
    THEN [role |-> "assistant", content |-> [blocks |-> response.content]]
    ELSE response

\* client.messages.create / client.chat.completions.create: the model answers the
\* history; it stops asking for tools after MaxTurns responses that did
Create(history) ==
    LET n == Len(turn.prompts) + 1
        asked == Cardinality({i \in 1..Len(messages) : messages[i].role = "assistant"})
        asking == IF program = "anthropic_example" THEN AnthropicAsking(n) ELSE OpenAIAsking(n)
        final == IF program = "anthropic_example" THEN AnthropicFinal(n) ELSE OpenAIFinal(n)
    IN  /\ \E response \in (IF asked < MaxTurns THEN asking ELSE {}) \cup final :
             turn' = [turn EXCEPT !.response = response,
                                  !.prompts = Append(@, history)]
        /\ pc' = "while"

InitTools ==
    /\ program \in {"anthropic_example", "openai_example"}
    /\ pc = "start"
    /\ messages = <<>>
    /\ turn = [response |-> None, index |-> 0, tool_results |-> <<>>,
               prompts |-> <<>>, executed |-> <<>>]
    /\ output = NoOutput
    /\ SERPAPI_KEY = "key"
    /\ call = NoCall
    /\ answer = NoBackend
    /\ sent = <<>>
    /\ result = NoResult
    /\ escaped = NoError

\* messages = [...]; the initial request
InitialRequest ==
    /\ pc = "start"
    /\ LET first == IF program = "anthropic_example"
                     THEN <<UserMsg("find rag papers")>>
                     ELSE <<SystemMsg, UserMsg("find rag papers")>>
       IN  messages' = first /\ Create(first)
    /\ UNCHANGED <<program, output, serverVars>>

\* the loop is entered: the assistant's response is added to the history
AddAssistant ==
    /\ pc = "while"
    /\ loop_test(program, turn.response)
    /\ messages' = Append(messages, AssistantTurn(program, turn.response))
    /\ turn' = [turn EXCEPT !.index = 1, !.tool_results = <<>>]
    /\ pc' = IF requests(program, turn.response) = <<>> THEN "results" ELSE "for"
    /\ UNCHANGED <<program, output, serverVars>>

\* one pass of the for loop: a request is executed and its result kept
ExecuteTool ==
    /\ pc = "for"
    /\ LET todo == requests(program, turn.response)
           request == todo[turn.index]
       IN  /\ IF program = "anthropic_example"
              THEN /\ turn' = [turn EXCEPT
                                 !.tool_results =
                                     Append(@, process_anthropic_tool_use(request)),
                                 !.index = @ + 1,
                                 !.executed = Append(@, request.id)]
                   /\ UNCHANGED messages
              ELSE /\ messages' = Append(messages, process_openai_tool_call(request))
                   /\ turn' = [turn EXCEPT !.index = @ + 1,
                                           !.executed = Append(@, request.id)]
           /\ pc' = IF turn.index < Len(todo) THEN "for" ELSE "results"
    /\ UNCHANGED <<program, output, serverVars>>

\* messages.append({"role": "user", "content": tool_results}), in anthropic_example
AddToolResults ==
    /\ pc = "results"
    /\ program = "anthropic_example"
    /\ messages' = Append(messages, [role |-> "user",
                                     content |-> [tool_results |-> turn.tool_results]])
    /\ pc' = "create"
    /\ UNCHANGED <<program, turn, output, serverVars>>

\* the next response is asked for, with the history as it is
NextResponse ==
    /\ \/ pc = "create"
       \/ pc = "results" /\ program = "openai_example"
    /\ Create(messages)
    /\ UNCHANGED <<program, messages, output, serverVars>>

\* the loop is left: the text of the response in hand is returned
ReturnText ==
    /\ pc = "while"
    /\ ~loop_test(program, turn.response)
    /\ output' = final_text(program, turn.response)
    /\ pc' = "done"
    /\ UNCHANGED <<program, messages, turn, serverVars>>

NextTools ==
    \/ InitialRequest
    \/ AddAssistant
    \/ ExecuteTool
    \/ AddToolResults
    \/ NextResponse
    \/ ReturnText

SpecTools == InitTools /\ [][NextTools]_vars

\* the interpreter runs the statement the program is at
SpecToolsFair == SpecTools /\ WF_vars(NextTools)

----------------------------------------------------------------------------
(* Properties of the server's handlers *)

Clamped == call.tool \in {"search_scholar", "get_paper_citations"}

\* C1: for every integer num_results given to search_scholar or get_paper_citations
\* the request is issued and its num is max(1, min(num_results, 20)): in 1..20,
\* num_results itself when that is in 1..20, 1 below and 20 above.
C1_NumClamped ==
    (pc = "returned" /\ Clamped /\ SERPAPI_KEY # "") =>
        /\ Len(sent) = 1
        /\ sent[1].num \in 1..20
        /\ (call.num_results \in 1..20 => sent[1].num = call.num_results)
        /\ (call.num_results < 1 => sent[1].num = 1)
        /\ (call.num_results > 20 => sent[1].num = 20)

C1_Witness ==
    /\ pc = "returned"
    /\ call.tool = "get_paper_citations"
    /\ call.num_results = 999
    /\ Len(sent) = 1
    /\ sent[1].num = 20
    /\ "error" \notin DOMAIN result

\* a year bound the caller gave: an int, where the default is None
Given(year) == year # None

Searching == pc = "returned" /\ call.tool = "search_scholar" /\ Len(sent) = 1

\* C12 as claimed: as_ylo is in the request exactly when year_from was given, with
\* its value, and as_yhi exactly when year_to was given, each on its own.
C12_YearGivenSent ==
    Searching =>
        /\ "as_ylo" \in DOMAIN sent[1] <=> Given(call.year_from)
        /\ "as_yhi" \in DOMAIN sent[1] <=> Given(call.year_to)
        /\ "as_ylo" \in DOMAIN sent[1] => sent[1].as_ylo = call.year_from.v
        /\ "as_yhi" \in DOMAIN sent[1] => sent[1].as_yhi = call.year_to.v

\* C12 as amended: as_ylo is in the request exactly when year_from was given and is not 0,
\* with its value, and is absent (never null or 0) otherwise; the same for as_yhi
\* and year_to, each on its own, in all four combinations.
C12_YearNonZeroSent ==
    Searching =>
        /\ "as_ylo" \in DOMAIN sent[1] <=> (Given(call.year_from) /\ call.year_from.v # 0)
        /\ "as_yhi" \in DOMAIN sent[1] <=> (Given(call.year_to) /\ call.year_to.v # 0)
        /\ "as_ylo" \in DOMAIN sent[1] => sent[1].as_ylo = call.year_from.v
        /\ "as_yhi" \in DOMAIN sent[1] => sent[1].as_yhi = call.year_to.v

C12_Witness ==
    /\ Searching
    /\ call.year_from = None
    /\ call.year_to = I(2020)
    /\ "as_ylo" \notin DOMAIN sent[1]
    /\ sent[1].as_yhi = 2020

NormalKeys == {"results", "citing_papers", "publications", "matching_authors"}

\* C2: an operation that runs with no API key configured issues no request to the
\* backend and ends with an error outcome, not a normal result.
C2_NoKeyNoRequest ==
    (pc = "returned" /\ SERPAPI_KEY = "") =>
        /\ sent = <<>>
        /\ escaped # NoError \/ "error" \in DOMAIN result
        /\ DOMAIN result \cap NormalKeys = {}

C2_Witness ==
    /\ pc = "returned"
    /\ SERPAPI_KEY = ""
    /\ call.tool = "get_author_profile"
    /\ sent = <<>>
    /\ "error" \in DOMAIN result
    /\ result.error = MissingKeyMsg

SearchAnswered == pc = "returned" /\ call.tool = "search_scholar" /\ answer.kind = "reply"

Organic == GetRaw(answer.body, "organic_results", <<>>)

\* the records the loop visits: as many as the num that was sent, at most
Visited == SubSeq(Organic, 1, IF Len(Organic) < sent[1].num THEN Len(Organic) ELSE sent[1].num)

NullAt(d, k) == k \in DOMAIN d.v /\ d.v[k] = Null

MalformedRecord(rec) ==
    \/ rec = Null
    \/ NullAt(rec, "publication_info")
    \/ "publication_info" \in DOMAIN rec.v /\ NullAt(rec.v.publication_info, "summary")
    \/ NullAt(rec, "inline_links")
    \/ "inline_links" \in DOMAIN rec.v /\ NullAt(rec.v.inline_links, "cited_by")

ExpectedCitations(rec) ==
    IF "inline_links" \notin DOMAIN rec.v THEN 0
    ELSE IF "cited_by" \notin DOMAIN rec.v.inline_links.v THEN 0
    ELSE IF "total" \notin DOMAIN rec.v.inline_links.v.cited_by.v THEN 0
    ELSE rec.v.inline_links.v.cited_by.v.total

\* C7: a record lacking inline_links, inline_links.cited_by or
\* inline_links.cited_by.total gets citations 0 and stops no other record from
\* being normalized; with the full path present citations is its total.
C7_CitationsDefault ==
    (/\ SearchAnswered
     /\ "error" \notin DOMAIN answer.body
     /\ \A i \in 1..Len(Visited) : ~MalformedRecord(Visited[i])) =>
        /\ "results" \in DOMAIN result
        /\ Len(result.results) = Len(Visited)
        /\ \A i \in 1..Len(Visited) :
             result.results[i].citations = ExpectedCitations(Visited[i])

C7_Witness ==
    /\ SearchAnswered
    /\ Len(Organic) = 2
    /\ "inline_links" \notin DOMAIN Organic[1].v
    /\ Organic[2] = FullRecord
    /\ "results" \in DOMAIN result
    /\ Len(result.results) = 2
    /\ result.results[1].citations = 0
    /\ result.results[2].citations = 42

IsPrefixOfOrganic ==
    /\ Len(result.results) <= Len(Organic)
    /\ \A i \in 1..Len(result.results) : result.results[i] = FormatPaper(Organic[i])

\* C8 as claimed: the papers are a prefix of organic_results in the backend's order
\* and never more than the requested num_results (stated here for requests of 0 or
\* more, which the claim includes).
C8_AtMostRequested ==
    (SearchAnswered /\ "results" \in DOMAIN result) =>
        /\ IsPrefixOfOrganic
        /\ call.num_results >= 0 => Len(result.results) <= call.num_results

\* C8 as amended: the papers are the first min(len(organic_results),
\* max(1, min(num_results, 20))) records of organic_results in the backend's order,
\* so never more than num_results when num_results >= 1, and one paper at most
\* when num_results < 1.
C8_PrefixOfClamped ==
    (SearchAnswered /\ "results" \in DOMAIN result) =>
        /\ IsPrefixOfOrganic
        /\ result.total_results = Len(result.results)
        /\ call.num_results > 20 =>
             Len(result.results) = (IF Len(Organic) < 20 THEN Len(Organic) ELSE 20)
        /\ call.num_results \in 1..20 =>
             Len(result.results) =
                (IF Len(Organic) < call.num_results THEN Len(Organic) ELSE call.num_results)
        /\ call.num_results < 1 =>
             Len(result.results) = (IF Len(Organic) < 1 THEN Len(Organic) ELSE 1)

C8_Witness ==
    /\ SearchAnswered
    /\ call.num_results = 1
    /\ Len(Organic) = 2
    /\ Organic[1] = FullRecord
    /\ Organic[2] = EmptyDict
    /\ "results" \in DOMAIN result
    /\ Len(result.results) = 1
    /\ result.results[1].title = Organic[1].v.title

IdParam ==
    CASE call.tool = "search_scholar" -> "query"
      [] call.tool = "get_paper_citations" -> "citation_id"
      [] call.tool = "get_author_profile" -> "author_id"
      [] call.tool = "search_author" -> "author_name"

MalformedArticle(a) == a = Null \/ NullAt(a, "cited_by")

ParseFails ==
    /\ answer.kind = "reply"
    /\ "error" \notin DOMAIN answer.body
    /\ CASE call.tool = "search_scholar" ->
              \E i \in 1..Len(Visited) : MalformedRecord(Visited[i])
         [] call.tool = "get_paper_citations" ->
              \E i \in 1..Len(Visited) : Visited[i] = Null \/ NullAt(Visited[i], "publication_info")
         [] call.tool = "get_author_profile" ->
              \/ "author" \in DOMAIN answer.body /\ answer.body.author = Null
              \/ "cited_by" \in DOMAIN answer.body /\ answer.body.cited_by = Null
              \/ \E i \in 1..Len(GetRaw(answer.body, "articles", <<>>)) :
                    i <= 10 /\ MalformedArticle(answer.body.articles[i])
         [] call.tool = "search_author" ->
              \E i \in 1..Len(GetRaw(answer.body, "profiles", <<>>)) :
                    i <= 5 /\ answer.body.profiles[i] = Null

Failed ==
    \/ SERPAPI_KEY = ""
    \/ answer.kind = "raise"
    \/ answer.kind = "reply" /\ "error" \in DOMAIN answer.body
    \/ ParseFails

\* C10: no failure inside an operation (missing key, exception from the backend
\* call, backend-reported error, exception while parsing a record) is raised to the
\* caller; the operation returns a result with error set that carries the
\* operation's identifying parameter unchanged.
C10_FailureReturned ==
    pc = "returned" =>
        /\ escaped = NoError
        /\ result # NoResult
        /\ Failed =>
             /\ "error" \in DOMAIN result
             /\ IdParam \in DOMAIN result
             /\ result[IdParam] = call[IdParam]
             /\ DOMAIN result \cap NormalKeys = {}

C10_Witness ==
    /\ pc = "returned"
    /\ call.tool = "get_author_profile"
    /\ answer.kind = "reply"
    /\ ParseFails
    /\ escaped = NoError
    /\ result = [error |-> AttrErr, author_id |-> call.author_id]

----------------------------------------------------------------------------
(* Properties of the summary parser, under SpecSummary *)

TheSummary == answer.body.organic_results[1].v.publication_info.v.summary.v
ThePaper == result.results[1]

HasSeparator(s) == \E i \in 1..(Len(s) - 2) : s[i] = " " /\ s[i + 1] = "-" /\ s[i + 2] = " "
HasComma(s) == \E i \in 1..Len(s) : s[i] = ","
IsYearText(y) ==
    /\ Len(y) = 4
    /\ <<y[1], y[2]>> \in {<<"1", "9">>, <<"2", "0">>}
    /\ y[3] \in Digits
    /\ y[4] \in Digits
Trimmed(s) == s # <<>> /\ s[1] # " " /\ s[Len(s)] # " "

\* C4: a summary "<authors> - <venue>, <year>", where authors and venue hold no
\* " - ", venue holds no comma and year is four digits starting 19 or 20, yields
\* authors, venue and year as written (stated here for authors and venue that are
\* not empty and have no blank at either end, which the claim includes).
C4_AuthorsVenueYear ==
    pc = "returned" =>
        \A i, j \in 1..Len(TheSummary) :
            LET s == TheSummary
                authors == SubSeq(s, 1, i - 1)
                venue == SubSeq(s, i + 3, j - 1)
                year == SubSeq(s, j + 2, Len(s))
            IN  (/\ i + 3 <= j
                 /\ j + 1 <= Len(s)
                 /\ SubSeq(s, i, i + 2) = <<" ", "-", " ">>
                 /\ SubSeq(s, j, j + 1) = <<",", " ">>
                 /\ IsYearText(year)
                 /\ Trimmed(authors) /\ ~HasSeparator(authors)
                 /\ Trimmed(venue) /\ ~HasSeparator(venue) /\ ~HasComma(venue)) =>
                    /\ "results" \in DOMAIN result
                    /\ ThePaper.authors = authors
                    /\ ThePaper.venue = venue
                    /\ ThePaper.year = year

\* C5: a summary without " - " (the empty one, one with a year or a comma) yields
\* authors = the whole summary, venue = "Unknown", year = "Unknown", and no failure.
C5_NoSeparator ==
    (pc = "returned" /\ ~HasSeparator(TheSummary)) =>
        /\ escaped = NoError
        /\ "error" \notin DOMAIN result
        /\ "results" \in DOMAIN result /\ Len(result.results) = 1
        /\ ThePaper.authors = TheSummary
        /\ ThePaper.venue = <<"U", "n", "k", "n", "o", "w", "n">>
        /\ ThePaper.year = <<"U", "n", "k", "n", "o", "w", "n">>

C5_Witness ==
    /\ pc = "returned"
    /\ TheSummary = <<"A", ",", " ", "2", "0", "2", "0">>
    /\ ThePaper.authors = TheSummary
    /\ ThePaper.year = Unknown

\* C6: the year of every paper search_scholar produces is "Unknown" or four digits
\* of which the first two are 19 or 20.
C6_YearFormat ==
    (pc = "returned" /\ "results" \in DOMAIN result) =>
        \A i \in 1..Len(result.results) :
            \/ result.results[i].year = <<"U", "n", "k", "n", "o", "w", "n">>
            \/ IsYearText(result.results[i].year)

C6_Witness ==
    /\ pc = "returned"
    /\ "results" \in DOMAIN result
    /\ ThePaper.year = <<"1", "9", "8", "7">>
    /\ HasSeparator(TheSummary)

----------------------------------------------------------------------------
(* Properties of the free-text action flow, under SpecChat *)

Blocks(text) == {i \in 1..Len(text) : text[i].kind \in {"fence", "bare"}}

WellFormedSearch(b) ==
    b.valid /\ b.flat /\ "action" \in DOMAIN b.value /\ b.value.action = "search"

OneSearchBlock(text) ==
    /\ Cardinality(Blocks(text)) = 1
    /\ \A i \in Blocks(text) : WellFormedSearch(text[i].body)

Handled == turn.responses # <<>>

\* C9: handling one user message invokes the model twice and the search once when
\* the first response holds one well-formed {"action": "search", ...} block, and the
\* model once and the search not at all when it holds no block; a block in the
\* second response changes nothing.
C9_RoundTrips ==
    Handled =>
        /\ OneSearchBlock(turn.responses[1]) =>
             Len(turn.responses) = 2 /\ Len(turn.searches) = 1
        /\ Blocks(turn.responses[1]) = {} =>
             Len(turn.responses) = 1 /\ Len(turn.searches) = 0
        /\ Len(turn.responses) <= 2
        /\ Len(turn.searches) <= 1

C9_Witness ==
    /\ program = "chat"
    /\ Handled
    /\ OneSearchBlock(turn.responses[1])
    /\ turn.responses[1][1].kind = "bare"
    /\ Len(turn.responses) = 2
    /\ OneSearchBlock(turn.responses[2])
    /\ Len(turn.searches) = 1
    /\ messages[Len(messages)] = AssistantMsg(turn.responses[2])

\* the history a turn of the chat loop leaves: the request, the formatted result
\* and the summary, after the user's message
LastFour == SubSeq(messages, Len(messages) - 3, Len(messages))

Searched == program = "chat" /\ Handled /\ turn.searches # <<>>
SearchFailed == Searched /\ turn.results[1].error # ""

\* C11: in the chat loop a search whose result has error set does not end the
\* conversation: the error text is formatted as the tool result, appended to the
\* history after the request and sent to the model, whose summary is appended,
\* and the loop waits for the next input; the loop ends only from the input
\* prompt, on a quit command or an interrupt, which leave the history as it is.
C11_ErrorKeepsLoop ==
    [][(program = "chat" /\ pc = "input") =>
         /\ (messages' # messages /\ turn'.results # <<>> /\ turn'.results[1].error # "") =>
              /\ pc' = "input"
              /\ Len(messages') = Len(messages) + 4
              /\ messages'[Len(messages') - 1] =
                   ResultsMsg([text |-> "Search error: ", error |-> turn'.results[1].error])
              /\ messages'[Len(messages')] = AssistantMsg(turn'.responses[2])
              /\ turn'.prompts[2] = SubSeq(messages', 1, Len(messages') - 1)
         /\ pc' = "done" => messages' = messages /\ turn' = turn]_vars

C11_Witness ==
    /\ SearchFailed
    /\ pc = "input"
    /\ UserTurns = 2
    /\ LastFour[3] = ResultsMsg([text |-> "Search error: ", error |-> "quota exceeded"])
    /\ LastFour[3] = turn.prompts[2][Len(turn.prompts[2])]
    /\ LastFour[4] = AssistantMsg(turn.responses[2])


\* the history of the chat loop
RoleAt(i) == messages[i].role
InChatLoop == program = "chat" /\ pc \in {"input", "done"}

HistoryAlternates ==
    InChatLoop =>
        /\ Len(messages) >= 2
        /\ messages[1] = SystemMsg
        /\ messages[2].content.text \in GreetingTexts
        /\ \A i \in 2..Len(messages) :
             RoleAt(i) = (IF i % 2 = 0 THEN "assistant" ELSE "user")
        /\ RoleAt(Len(messages)) = "assistant"

\* the messages a step has added, and the texts of the assistant messages among them
Added == SubSeq(messages', Len(messages) + 1, Len(messages'))
AddedResponses ==
    LET said == SelectSeq(Added, LAMBDA m : m.role = "assistant")
    IN  [i \in 1..Len(said) |-> said[i].content.text]

HistoryGrowsByTurns ==
    (program = "chat" /\ messages' # messages) =>
        /\ SubSeq(messages', 1, Len(messages)) = messages
        /\ pc = "start" => AddedResponses = <<output'>>
        /\ pc = "input" =>
             /\ AddedResponses = turn'.responses
             /\ "input" \in DOMAIN Added[1].content
             /\ Added[1].content.input # <<>>

\* C19: in the chat loop the history is the system message, the greeting, and then
\* user and assistant messages in turn, ending in an assistant message whenever
\* the loop waits for input; a step adds every response the model gave in it once,
\* in order, and adds nothing unless the user's input is not empty.
C19_HistoryAlternates == []HistoryAlternates /\ [][HistoryGrowsByTurns]_vars

C19_Witness ==
    /\ program = "chat"
    /\ pc = "input"
    /\ Len(messages) = 8
    /\ "results" \in DOMAIN messages[5].content
    /\ "input" \in DOMAIN messages[7].content
    /\ RoleAt(8) = "assistant"
    /\ Len(turn.responses) = 1

----------------------------------------------------------------------------
(* Properties of extract_json_block in the two free-text flows, under SpecChat *)

FirstResponse == turn.responses[1]
SearchRequested == turn.searches # <<>>

Fences(text) == {i \in 1..Len(text) : text[i].kind = "fence"}
Bares(text) == {i \in 1..Len(text) : text[i].kind = "bare"}

Parses(seg) == seg.body.valid
SuppliesAction(seg) == seg.body.valid /\ "action" \in DOMAIN seg.body.value
AsksSearch(seg) == SuppliesAction(seg) /\ seg.body.value.action = "search"

\* the first fenced block, and the first brace-delimited text without braces inside
\* that holds "action", whether bare or inside a fence; 0 when there is none
FirstFence(text) == Leftmost(Fences(text))
FirstActionObject(text) ==
    Leftmost({i \in Fences(text) \cup Bares(text) :
                text[i].body.flat /\ text[i].body.mentions_action})

FirstFenceParses(text) == FirstFence(text) # 0 /\ Parses(text[FirstFence(text)])

\* C15 as claimed: a search comes from a bare object only when no fenced block
\* parses; a bare well-formed search object is requested whenever no fenced block
\* supplies an action; nothing is requested when neither stage finds a parseable
\* object.
C15_BareWheneverNoFencedAction ==
    Handled =>
        LET text == FirstResponse
        IN  /\ (SearchRequested /\ \E i \in Fences(text) : Parses(text[i])) =>
                 \E i \in Fences(text) : AsksSearch(text[i])
            /\ ((\E i \in Bares(text) : WellFormedSearch(text[i].body))
                  /\ \A i \in Fences(text) : ~SuppliesAction(text[i])) => SearchRequested
            /\ (\A i \in Fences(text) \cup Bares(text) : ~Parses(text[i])) => ~SearchRequested

\* C15 as amended: the first fenced block decides alone when it parses; otherwise the first
\* brace-delimited object holding "action" decides, and a bare well-formed search
\* object in that place is requested with its arguments; nothing is requested when
\* neither the first fenced block nor that object parses.
C15_FirstMatchOfEachStage ==
    Handled =>
        LET text == FirstResponse
            f == FirstFence(text)
            r == FirstActionObject(text)
        IN  /\ FirstFenceParses(text) => (SearchRequested <=> AsksSearch(text[f]))
            /\ (~FirstFenceParses(text) /\ r # 0 /\ WellFormedSearch(text[r].body)) =>
                 /\ SearchRequested
                 /\ turn.searches[1] = SearchArgs(D(text[r].body.value))
            /\ (~FirstFenceParses(text) /\ (r = 0 \/ ~Parses(text[r]))) => ~SearchRequested

C15_Witness ==
    /\ program = "ollama_example"
    /\ Handled
    /\ FirstResponse = <<Fence(BrokenBody), Bare(SearchBody)>>
    /\ SearchRequested
    /\ turn.searches[1].query = "rag"
    /\ Len(messages) = 4

----------------------------------------------------------------------------
(* Properties of the author handlers, under Spec *)

AnsweredBy(tool) == pc = "returned" /\ call.tool = tool /\ answer.kind = "reply"
Articles == GetRaw(answer.body, "articles", <<>>)
Profiles == GetRaw(answer.body, "profiles", <<>>)

\* C18: a profile lookup that returns a profile shows the first 10 articles of the
\* reply, or all of them when there are fewer, each in its place; a name search
\* that returns authors shows the first 5 profiles of the reply, or all of them,
\* each in its place.
C18_FirstItemsInOrder ==
    /\ (AnsweredBy("get_author_profile") /\ "publications" \in DOMAIN result) =>
          /\ Len(result.publications) = (IF Len(Articles) < 10 THEN Len(Articles) ELSE 10)
          /\ \A i \in 1..Len(result.publications) :
                result.publications[i] = FormatArticle(Articles[i])
    /\ (AnsweredBy("search_author") /\ "matching_authors" \in DOMAIN result) =>
          /\ Len(result.matching_authors) = (IF Len(Profiles) < 5 THEN Len(Profiles) ELSE 5)
          /\ \A i \in 1..Len(result.matching_authors) :
                result.matching_authors[i] = FormatMatch(Profiles[i])

C18_Witness ==
    /\ AnsweredBy("get_author_profile")
    /\ Len(Articles) = 11
    /\ Articles[11] = Null
    /\ "publications" \in DOMAIN result
    /\ Len(result.publications) = 10
    /\ result.publications[10].citations = 10


CitedBy == GetRaw(answer.body, "cited_by", EmptyDict)
HasTable == "table" \in DOMAIN CitedBy.v /\ CitedBy.v.table # <<>>
FirstEntry == CitedBy.v.table[1].v

\* what the first entry of the table gives for a key: the number under "all",
\* 0 without the key
OfFirstEntry(key) ==
    IF HasTable /\ key \in DOMAIN FirstEntry /\ "all" \in DOMAIN FirstEntry[key].v
    THEN FirstEntry[key].v.all
    ELSE 0

\* C20: in a profile that get_author_profile returns, citations_all, h_index and
\* i10_index are what the first entry of cited_by.table holds under citations,
\* h_index and i10_index, and 0 when the table is absent or empty or the first
\* entry has no such key, whatever the later entries hold.
C20_StatsOfFirstEntry ==
    (AnsweredBy("get_author_profile") /\ "publications" \in DOMAIN result) =>
        /\ result.citations_all = OfFirstEntry("citations")
        /\ result.h_index = OfFirstEntry("h_index")
        /\ result.i10_index = OfFirstEntry("i10_index")

C20_Witness ==
    /\ AnsweredBy("get_author_profile")
    /\ "publications" \in DOMAIN result
    /\ HasTable
    /\ Len(CitedBy.v.table) = 2
    /\ CitedBy.v.table[2].v.h_index.v.all = 50
    /\ result.citations_all = 100
    /\ result.h_index = 9
    /\ result.i10_index = 0

----------------------------------------------------------------------------
(* Properties of the summary parser with several separators or commas, under *)
(* SpecSummary *)

\* the text before the first " - " of a summary that has one, and the text after it
FirstSeparator(s) == FindFrom(s, Sep, 1)
BeforeFirst(s) == SubSeq(s, 1, FirstSeparator(s) - 1)
Remainder(s) == SubSeq(s, FirstSeparator(s) + Len(Sep), Len(s))

Parsed == pc = "returned" /\ "results" \in DOMAIN result /\ Len(result.results) = 1

\* C16: a summary with one or more " - " is split once, at the first: authors is
\* the text before it, and venue and year are what the venue and year rules give
\* for the whole text after it.
C16_SplitAtFirst ==
    (Parsed /\ HasSeparator(TheSummary)) =>
        /\ ThePaper.authors = BeforeFirst(TheSummary)
        /\ ThePaper.venue = venue_of(Remainder(TheSummary))
        /\ ThePaper.year = year_of(Remainder(TheSummary))

LastComma(s) == CHOOSE i \in 1..Len(s) : s[i] = "," /\ \A j \in (i + 1)..Len(s) : s[j] # ","
AfterLastComma(s) == SubSeq(s, LastComma(s) + 1, Len(s))
BeforeLastComma(s) == SubSeq(s, 1, LastComma(s) - 1)
YearTokens(s) == {i \in 1..Len(s) : YearAt(s, i)}
OneSeparator(s) == HasSeparator(s) /\ ~HasSeparator(Remainder(s))

\* C17: for a summary with one " - " and at most one year token after it: when
\* the text after the separator has a comma, venue is that text without its
\* trailing ", <year>", and the whole text when what follows the last comma is not
\* the year; without a comma venue is the whole text; surrounding blanks are
\* trimmed in each case.
C17_VenueKeepsText ==
    (Parsed /\ OneSeparator(TheSummary)
       /\ Cardinality(YearTokens(Remainder(TheSummary))) <= 1) =>
        LET venue_year == Remainder(TheSummary)
        IN  ThePaper.venue =
              IF HasComma(venue_year)
                   /\ strip(AfterLastComma(venue_year)) = ThePaper.year
              THEN strip(BeforeLastComma(venue_year))
              ELSE strip(venue_year)

----------------------------------------------------------------------------
(* Properties of the native tool-calling loops, under SpecTools *)

\* the ids of the requests an assistant message of the history carries
RequestIds(m) ==
    IF program = "anthropic_example"
    THEN LET asked == SelectSeq(m.content.blocks, LAMBDA block : block.type = "tool_use")
         IN  [k \in 1..Len(asked) |-> asked[k].id]
    ELSE IF m.tool_calls = None THEN <<>>
         ELSE [k \in 1..Len(m.tool_calls.list) |-> m.tool_calls.list[k].id]

\* the ids that the tool results right after message i of the history answer
ResultIds(history, i) ==
    IF program = "anthropic_example"
    THEN IF i < Len(history) /\ "tool_results" \in DOMAIN history[i + 1].content
         THEN LET given == history[i + 1].content.tool_results
              IN  [k \in 1..Len(given) |-> given[k].tool_use_id]
         ELSE <<>>
    ELSE LET runs == {j \in i..Len(history) : \A k \in (i + 1)..j : history[k].role = "tool"}
             last == CHOOSE j \in runs : \A k \in runs : k <= j
         IN  [k \in 1..(last - i) |-> history[i + k].tool_call_id]

AssistantAt(history) == {i \in 1..Len(history) : history[i].role = "assistant"}

Answered(history) ==
    \A i \in AssistantAt(history) : ResultIds(history, i) = RequestIds(history[i])

InLoopBody == pc \in {"for", "results", "create"}

\* C13: in both native loops the assistant message with the requests is in the
\* history before any of its results, the results follow it one per request in the
\* order of the requests, and every history the model is invoked with has, after
\* each assistant message, the results of exactly its requests.
C13_RequestsAnswered ==
    program \in {"anthropic_example", "openai_example"} =>
        /\ \A p \in 1..Len(turn.prompts) : Answered(turn.prompts[p])
        /\ InLoopBody =>
             LET i == CHOOSE j \in AssistantAt(messages) :
                          \A k \in AssistantAt(messages) : k <= j
                 ids == RequestIds(messages[i])
                 done == SubSeq(ids, 1, turn.index - 1)
             IN  /\ AssistantAt(messages) # {}
                 /\ messages[i] = AssistantTurn(program, turn.response)
                 /\ Len(turn.prompts) = Cardinality(AssistantAt(messages))
                 /\ IF program = "anthropic_example" /\ pc # "create"
                    THEN /\ i = Len(messages)
                         /\ [k \in 1..Len(turn.tool_results) |->
                               turn.tool_results[k].tool_use_id] = done
                    ELSE ResultIds(messages, i) = done
                 /\ pc # "for" => done = ids

C13_Witness ==
    /\ program = "openai_example"
    /\ pc = "while"
    /\ Len(turn.prompts) = 3
    /\ Len(RequestIds(messages[3])) = 2
    /\ messages[4].tool_call_id = CallId(1, 1)
    /\ messages[5].tool_call_id = CallId(1, 2)
    /\ messages[6].role = "assistant"
    /\ turn.prompts[2] = SubSeq(messages, 1, 5)

\* a response asks for tools when the provider marks it so: by the stop reason
\* tool_use, or by a list of tool calls that is not empty
AsksForTools(response) ==
    IF program = "anthropic_example"
    THEN response.stop_reason = "tool_use"
    ELSE response.tool_calls # None /\ response.tool_calls.list # <<>>

RECURSIVE AllRequestIds(_)
AllRequestIds(history) ==
    IF history = <<>> THEN <<>>
    ELSE (IF Head(history).role = "assistant" THEN RequestIds(Head(history)) ELSE <<>>)
         \o AllRequestIds(Tail(history))

\* the text of the response in hand, as the caller gets it
AnswerOfLast ==
    IF program = "anthropic_example"
    THEN <<TextOf(Len(turn.prompts))>>
    ELSE TextOf(Len(turn.prompts))

AtLoopTest == program \in {"anthropic_example", "openai_example"} /\ pc = "while"
Done == program \in {"anthropic_example", "openai_example"} /\ pc = "done"

LoopEndsOnlyOnAnswer ==
    program \in {"anthropic_example", "openai_example"} =>
        /\ Done =>
             /\ ~AsksForTools(turn.response)
             /\ output = AnswerOfLast
             /\ turn.executed = AllRequestIds(messages)
             /\ Len(turn.prompts) = Cardinality(AssistantAt(messages)) + 1
        /\ InLoopBody => AsksForTools(turn.response)
        /\ ~Done => ENABLED NextTools

\* C14: the native loops end exactly when a response asks for no tool: the loop
\* body runs only for a response that asks, no count of turns stops it, a response
\* that asks is followed by another invocation of the model, and a response that
\* does not ask leads to Done with its text as the answer, every request of the
\* earlier responses executed once and none executed after it.
C14_EndsWhenNoRequest ==
    /\ []LoopEndsOnlyOnAnswer
    /\ \A n \in 1..MaxTurns :
         (AtLoopTest /\ AsksForTools(turn.response) /\ Len(turn.prompts) = n)
             ~> (Len(turn.prompts) = n + 1 /\ Len(turn.executed) > 0)
    /\ (AtLoopTest /\ ~AsksForTools(turn.response)) ~> Done

C14_Witness ==
    /\ Done
    /\ program = "anthropic_example"
    /\ Cardinality(AssistantAt(messages)) = MaxTurns
    /\ Len(turn.executed) = MaxTurns * MaxCalls
    /\ turn.response.stop_reason = "end_turn"
    /\ output = <<TextOf(MaxTurns + 1)>>

====
